---- MODULE Spec2Model ----
(***************************************************************************)
(* AI Data Agent: the spreadsheet ingestion (DataProcessor), the keyword   *)
(* query agent (AIAgent) and the React state of App / FileUpload /         *)
(* ChatInterface, as state machines.                                       *)
(*                                                                         *)
(* JavaScript strings are sequences of one-character strings, so that      *)
(* includes(), toLowerCase(), trim() and the regular expressions of the    *)
(* source are computed character by character.  JavaScript values are      *)
(* tagged records.  Numbers are integers; an aggregate that is not an      *)
(* integer is kept exactly, in hundredths.                                 *)
(***************************************************************************)
EXTENDS Integers, Sequences, FiniteSets, TLC

VARIABLES
    \* ---- pipeline: one sheet through DataProcessor, one question through AIAgent
    pc,             \* "start" | "processed" | "answered" | "app"
    rawData,        \* any[][] handed to cleanAndStructureData
    processed,      \* what processExcelFile resolves with: data, columns, metadata
    question,       \* the question of the last processQuery call
    outcome,        \* sqlQuery, queryResult and AnalysisResult of that call
    \* ---- App.tsx
    processedData,  \* useState<ProcessedData | null>
    isProcessing,   \* useState(false)
    error,          \* useState<string | null>
    uploads,        \* the handleFileUpload calls awaiting processExcelFile
    nextUpload,     \* number of handleFileUpload calls made so far
    \* ---- ChatInterface.tsx (state of the mounted component)
    messages,       \* useState<ChatMessage[]>
    input,          \* useState('')
    isLoading,      \* useState(false)
    queries,        \* the processQuery calls started by handleSubmit, unsettled
    \* ---- DataProcessor.findBestSheet
    workbook,       \* XLSX.WorkBook: SheetNames and the '!ref' of each sheet
    sheetName,      \* the name findBestSheet returned
    \* ---- TableVisualization.tsx (state of one mounted table)
    tableData,      \* the data prop: columns and rows
    currentPage,    \* useState(1)
    csvContent      \* the text handleExport put in the Blob

vars == <<pc, rawData, processed, question, outcome,
          processedData, isProcessing, error, uploads, nextUpload,
          messages, input, isLoading, queries,
          workbook, sheetName, tableData, currentPage, csvContent>>

pipeVars == <<pc, rawData, processed, question, outcome>>
appVars == <<processedData, isProcessing, error, uploads, nextUpload>>
chatVars == <<messages, input, isLoading, queries>>
sheetVars == <<workbook, sheetName>>
tableVars == <<tableData, currentPage, csvContent>>

----------------------------------------------------------------------------
(* Characters and strings *)

Lowers == <<"a","b","c","d","e","f","g","h","i","j","k","l","m",
            "n","o","p","q","r","s","t","u","v","w","x","y","z">>
Uppers == <<"A","B","C","D","E","F","G","H","I","J","K","L","M",
            "N","O","P","Q","R","S","T","U","V","W","X","Y","Z">>
Digits == <<"0","1","2","3","4","5","6","7","8","9">>

InSeq(seq, c) == \E i \in 1..Len(seq) : seq[i] = c
IndexOf(seq, c) == CHOOSE i \in 1..Len(seq) : seq[i] = c

Min(a, b) == IF a < b THEN a ELSE b
Max(a, b) == IF a > b THEN a ELSE b

IsDigit(c) == InSeq(Digits, c)
DigitVal(c) == IndexOf(Digits, c) - 1
\* \w of a JavaScript regular expression: [A-Za-z0-9_]
IsWordChar(c) == InSeq(Lowers, c) \/ InSeq(Uppers, c) \/ IsDigit(c) \/ c = "_"
\* \s of a JavaScript regular expression, and the white space trim() removes
IsSpace(c) == c \in {" ", "\t", "\n"}

toLowerCaseChar(c) == IF InSeq(Uppers, c) THEN Lowers[IndexOf(Uppers, c)] ELSE c
toLowerCase(s) == [i \in 1..Len(s) |-> toLowerCaseChar(s[i])]

\* String.prototype.includes
includes(s, sub) ==
    \E i \in 1..(Len(s) - Len(sub) + 1) : SubSeq(s, i, i + Len(sub) - 1) = sub

\* String.prototype.trim
trim(s) ==
    LET keep == {i \in 1..Len(s) : ~IsSpace(s[i])}
    IN  IF keep = {} THEN <<>>
        ELSE SubSeq(s, CHOOSE i \in keep : \A j \in keep : i <= j,
                       CHOOSE i \in keep : \A j \in keep : i >= j)

\* String.prototype.substring(0, n)
substring0(s, n) == SubSeq(s, 1, Min(n, Len(s)))

RECURSIVE NatToStr(_)
NatToStr(n) == IF n < 10 THEN <<Digits[n + 1]>>
               ELSE NatToStr(n \div 10) \o <<Digits[(n % 10) + 1]>>

RECURSIVE StrToNat(_)
StrToNat(s) == IF Len(s) = 0 THEN 0
               ELSE 10 * StrToNat(SubSeq(s, 1, Len(s) - 1)) + DigitVal(s[Len(s)])

\* Number.prototype.toString of an integer
IntToStr(n) == IF n < 0 THEN <<"-">> \o NatToStr(0 - n) ELSE NatToStr(n)

AllDigits(s) == \A i \in 1..Len(s) : IsDigit(s[i])

----------------------------------------------------------------------------
(* JavaScript values *)

Null == [t |-> "null"]
Undefined == [t |-> "undefined"]
NaN == [t |-> "NaN"]
Num(n) == [t |-> "number", n |-> n]
Str(s) == [t |-> "string", s |-> s]
Bool(b) == [t |-> "boolean", b |-> b]
\* a number with two decimals that is not an integer, h = 100 * the number
Frac(h) == [t |-> "number", h |-> h]
FromHundredths(h) == IF h % 100 = 0 THEN Num(h \div 100) ELSE Frac(h)

IsNum(v) == v.t = "number" /\ "n" \in DOMAIN v

\* the typeof operator
TypeOf(v) == CASE v.t = "null" -> "object"
               [] v.t = "NaN" -> "number"
               [] OTHER -> v.t

\* Math.round(num / den) for den > 0: halves round towards +Infinity
MathRoundDiv(num, den) == (2 * num + den) \div (2 * den)

\* Number(s) of a trimmed non-empty string, for decimal integer literals with
\* an optional sign; every other text of the modelled alphabet that the
\* inputs use is not a number (NaN).
NumberOf(s) ==
    LET body == IF s[1] \in {"-", "+"} THEN SubSeq(s, 2, Len(s)) ELSE s
    IN  IF Len(body) > 0 /\ AllDigits(body)
        THEN Num(IF s[1] = "-" THEN 0 - StrToNat(body) ELSE StrToNat(body))
        ELSE NaN

\* String(value) for the values a sheet cell can hold
StringOf(v) == CASE v.t = "string" -> v.s
                 [] IsNum(v) -> IntToStr(v.n)
                 [] v.t = "boolean" -> IF v.b THEN <<"t","r","u","e">>
                                       ELSE <<"f","a","l","s","e">>
                 [] v.t = "null" -> <<"n","u","l","l">>
                 [] v.t = "NaN" -> <<"N","a","N">>
                 [] OTHER -> <<"u","n","d","e","f","i","n","e","d">>

\* parseFloat(value): String(value), leading white space skipped, then the
\* longest decimal integer prefix with an optional sign
parseFloat(v) ==
    LET s0 == StringOf(v)
        lead == {i \in 1..Len(s0) : ~IsSpace(s0[i])}
        s == IF lead = {} THEN <<>>
             ELSE SubSeq(s0, CHOOSE i \in lead : \A j \in lead : i <= j, Len(s0))
        signed == Len(s) > 0 /\ s[1] \in {"-", "+"}
        b == IF signed THEN SubSeq(s, 2, Len(s)) ELSE s
        stop == {i \in 1..Len(b) : ~IsDigit(b[i])}
        k == IF stop = {} THEN Len(b)
             ELSE (CHOOSE i \in stop : \A j \in stop : i <= j) - 1
    IN  IF k = 0 THEN NaN
        ELSE Num(IF signed /\ s[1] = "-" THEN 0 - StrToNat(SubSeq(b, 1, k))
                 ELSE StrToNat(SubSeq(b, 1, k)))

----------------------------------------------------------------------------
(* JavaScript objects: own string keys in property order (integer-like    *)
(* keys first, ascending, then the others in insertion order).            *)

IsArrayIndex(k) ==
    /\ Len(k) > 0 /\ Len(k) <= 9
    /\ AllDigits(k)
    /\ (Len(k) = 1 \/ k[1] # "0")

ObjHas(o, k) == \E i \in 1..Len(o) : o[i].k = k
\* o[k]
ObjGet(o, k) == IF ObjHas(o, k) THEN o[CHOOSE i \in 1..Len(o) : o[i].k = k].v
                ELSE Undefined
\* o[k] = v
ObjSet(o, k, v) ==
    IF ObjHas(o, k)
    THEN [i \in 1..Len(o) |-> IF o[i].k = k THEN [k |-> k, v |-> v] ELSE o[i]]
    ELSE IF IsArrayIndex(k)
    THEN LET pos == Cardinality({i \in 1..Len(o) :
                        IsArrayIndex(o[i].k) /\ StrToNat(o[i].k) < StrToNat(k)})
         IN  SubSeq(o, 1, pos) \o <<[k |-> k, v |-> v]>> \o SubSeq(o, pos + 1, Len(o))
    ELSE Append(o, [k |-> k, v |-> v])
\* Object.keys(o), Object.values(o)
ObjKeys(o) == [i \in 1..Len(o) |-> o[i].k]
ObjValues(o) == [i \in 1..Len(o) |-> o[i].v]

----------------------------------------------------------------------------
(* DataProcessor (services/dataProcessor.ts) *)

HeaderScanRows == 5
MaxColumnNameLen == 50
DateSerialLow == 25000
DateSerialHigh == 50000
\* serial number of 1970-01-01 in the 1900 date system
EpochSerial == 25569

\* An index of a sparse array that holds no element.  sheet_to_json with
\* header: 1 leaves one for every empty cell that has a filled cell to its
\* right.  Reading it gives undefined; map, filter and every pass over it.
Hole == [t |-> "hole"]
\* the indices the callback of map / filter / every is called for
Elements(row) == {i \in 1..Len(row) : row[i] # Hole}
\* the hole that map leaves in the array of column names
NoName == <<"hole">>

\* cell === null || cell === undefined || cell === ''
IsBlankCell(cell) == cell = Null \/ cell = Undefined \/ cell = Str(<<>>)

\* row[j] of a JavaScript array, j counted from 1 here
CellAt(row, j) == IF j <= Len(row) /\ row[j] # Hole THEN row[j] ELSE Undefined

isLikelyHeaderRow(row) ==
    LET nonEmptyValues == {i \in Elements(row) : ~IsBlankCell(row[i])}
        stringValues == {i \in nonEmptyValues : TypeOf(row[i]) = "string"}
    IN  /\ Len(row) # 0
        /\ nonEmptyValues # {}
        /\ 10 * Cardinality(stringValues) > 7 * Cardinality(nonEmptyValues)

\* .replace(/[^\w\s-]/g, '')
RemoveSpecial(s) == SelectSeq(s, LAMBDA c : IsWordChar(c) \/ IsSpace(c) \/ c = "-")

\* .replace(/\s+/g, '_')
RECURSIVE SpacesToUnderscore(_)
SpacesToUnderscore(s) ==
    IF Len(s) = 0 THEN <<>>
    ELSE IF IsSpace(s[1])
         THEN IF Len(s) > 1 /\ IsSpace(s[2])
              THEN SpacesToUnderscore(Tail(s))
              ELSE <<"_">> \o SpacesToUnderscore(Tail(s))
         ELSE <<s[1]>> \o SpacesToUnderscore(Tail(s))

cleanColumnName(cell, index) ==
    IF IsBlankCell(cell)
    THEN <<"C","o","l","u","m","n","_">> \o NatToStr(index)
    ELSE substring0(SpacesToUnderscore(RemoveSpecial(trim(StringOf(cell)))),
                    MaxColumnNameLen)

cleanColumnNames(headerRow) ==
    [i \in 1..Len(headerRow) |->
        IF headerRow[i] = Hole THEN NoName ELSE cleanColumnName(headerRow[i], i)]

\* civil date of a day count from 1970-01-01 (proleptic Gregorian calendar)
CivilFromDays(days) ==
    LET z == days + 719468
        era == z \div 146097
        doe == z - era * 146097
        yoe == (doe - doe \div 1460 + doe \div 36524 - doe \div 146096) \div 365
        doy == doe - (365 * yoe + yoe \div 4 - yoe \div 100)
        mp == (5 * doy + 2) \div 153
        d == doy - (153 * mp + 2) \div 5 + 1
        m == IF mp < 10 THEN mp + 3 ELSE mp - 9
        y == yoe + era * 400 + (IF m <= 2 THEN 1 ELSE 0)
    IN  [y |-> y, m |-> m, d |-> d]

Pad2(n) == IF n < 10 THEN <<"0">> \o NatToStr(n) ELSE NatToStr(n)

\* new Date(date.y, date.m - 1, date.d).toISOString().split('T')[0] for
\* date = XLSX.SSF.parse_date_code(value): local midnight of the serial's day,
\* printed in UTC, which is the day before in a time zone east of UTC
DateStringOfSerial(value, east) ==
    LET c == CivilFromDays(value - EpochSerial - (IF east THEN 1 ELSE 0))
    IN  NatToStr(c.y) \o <<"-">> \o Pad2(c.m) \o <<"-">> \o Pad2(c.d)

\* cleanCellValue with the bounds of the date range included
cleanCellValue_InclusiveRange(value, east) ==
    IF IsBlankCell(value) THEN Null
    ELSE IF IsNum(value) /\ value.n >= DateSerialLow /\ value.n <= DateSerialHigh
    THEN Str(DateStringOfSerial(value.n, east))
    ELSE IF value.t = "string"
    THEN LET cleaned == trim(value.s)
         IN  IF cleaned # <<>> /\ NumberOf(cleaned) # NaN THEN NumberOf(cleaned)
             ELSE IF toLowerCase(cleaned) = <<"t","r","u","e">> THEN Bool(TRUE)
             ELSE IF toLowerCase(cleaned) = <<"f","a","l","s","e">> THEN Bool(FALSE)
             ELSE Str(cleaned)
    ELSE value

cleanCellValue(value, east) ==
    IF IsBlankCell(value) THEN Null
    ELSE IF IsNum(value) /\ value.n > DateSerialLow /\ value.n < DateSerialHigh
    THEN Str(DateStringOfSerial(value.n, east))
    ELSE IF value.t = "string"
    THEN LET cleaned == trim(value.s)
         IN  IF cleaned # <<>> /\ NumberOf(cleaned) # NaN THEN NumberOf(cleaned)
             ELSE IF toLowerCase(cleaned) = <<"t","r","u","e">> THEN Bool(TRUE)
             ELSE IF toLowerCase(cleaned) = <<"f","a","l","s","e">> THEN Bool(FALSE)
             ELSE Str(cleaned)
    ELSE value

isEmptyRow(row) == Len(row) = 0 \/ \A i \in Elements(row) : IsBlankCell(row[i])

\* the inner loop of cleanAndStructureData: cleanedRow[columns[j]] = ...
RECURSIVE cleanRow(_, _, _, _)
cleanRow(row, columns, j, east) ==
    IF j = 0 THEN <<>>
    ELSE ObjSet(cleanRow(row, columns, j - 1, east),
                \* columns[j] of a hole is undefined, and the key 'undefined'
                IF columns[j] = NoName THEN StringOf(Undefined) ELSE columns[j],
                cleanCellValue(CellAt(row, j), east))

\* the header row taken to be row 0 without a search
headerRowIndexOf_RowZero(raw) == 0

\* index (from 0) of the header row
headerRowIndexOf(raw) ==
    LET scan == {i \in 0..(Min(HeaderScanRows, Len(raw)) - 1) : isLikelyHeaderRow(raw[i + 1])}
    IN  IF scan = {} THEN 0 ELSE CHOOSE i \in scan : \A j \in scan : i <= j

cleanAndStructureData(raw, east) ==
    IF Len(raw) = 0 THEN [data |-> <<>>, columns |-> <<>>]
    ELSE LET headerRowIndex == headerRowIndexOf(raw)
             headerRow == raw[headerRowIndex + 1]
             columns == cleanColumnNames(headerRow)
             dataRows == SubSeq(raw, headerRowIndex + 2, Len(raw))
             kept == SelectSeq(dataRows, LAMBDA row : ~isEmptyRow(row))
         IN  [data |-> [i \in 1..Len(kept) |-> cleanRow(kept[i], columns, Len(columns), east)],
              columns |-> SelectSeq(columns, LAMBDA col : col # NoName /\ trim(col) # <<>>)]

\* calculateDataQualityScore without the consistency term
calculateDataQualityScore_CompletenessOnly(data, columns) ==
    IF Len(data) = 0 THEN Num(0)
    ELSE LET totalCells == Len(data) * Len(columns)
             valuesOf(c) == SelectSeq([r \in 1..Len(data) |-> ObjGet(data[r], columns[c])],
                                      LAMBDA val : val # Null /\ val # Undefined)
             RECURSIVE validUpTo(_)
             validUpTo(c) == IF c = 0 THEN 0 ELSE validUpTo(c - 1) + Len(valuesOf(c))
             validCells == validUpTo(Len(columns))
         IN  IF Len(columns) = 0 THEN NaN
             ELSE Num(MathRoundDiv(100 * validCells, totalCells))

calculateDataQualityScore(data, columns) ==
    IF Len(data) = 0 THEN Num(0)
    ELSE LET totalCells == Len(data) * Len(columns)
             valuesOf(c) == SelectSeq([r \in 1..Len(data) |-> ObjGet(data[r], columns[c])],
                                      LAMBDA val : val # Null /\ val # Undefined)
             consistent(c) ==
                 LET columnValues == valuesOf(c)
                     sameType == SelectSeq(columnValues,
                                   LAMBDA val : TypeOf(val) = TypeOf(columnValues[1]))
                 IN  Len(columnValues) > 0 /\ 10 * Len(sameType) > 8 * Len(columnValues)
             RECURSIVE validUpTo(_)
             validUpTo(c) == IF c = 0 THEN 0 ELSE validUpTo(c - 1) + Len(valuesOf(c))
             validCells == validUpTo(Len(columns))
             consistentTypes == Cardinality({c \in 1..Len(columns) : consistent(c)})
         IN  \* 0 / 0 is NaN and Math.round(NaN) is NaN
             IF Len(columns) = 0 THEN NaN
             ELSE Num(MathRoundDiv(50 * (validCells * Len(columns) + consistentTypes * totalCells),
                                   totalCells * Len(columns)))

\* what the promise of processExcelFile resolves with (file name and size and
\* the sheet names are carried through unchanged and are left out)
processSheet(raw, east) ==
    LET p == cleanAndStructureData(raw, east)
    IN  [data |-> p.data,
         columns |-> p.columns,
         metadata |-> [rowCount |-> Len(p.data),
                       columnCount |-> Len(p.columns),
                       dataQualityScore |-> calculateDataQualityScore(p.data, p.columns)]]

\* XLSX.utils.decode_cell: 'B3' is column 1, row 2
RECURSIVE decode_col(_)
decode_col(letters) ==
    IF Len(letters) = 0 THEN 0
    ELSE 26 * decode_col(SubSeq(letters, 1, Len(letters) - 1))
         + IndexOf(Uppers, letters[Len(letters)])
decode_cell(cstr) ==
    [r |-> StrToNat(SelectSeq(cstr, IsDigit)) - 1,
     c |-> decode_col(SelectSeq(cstr, LAMBDA ch : InSeq(Uppers, ch))) - 1]
\* XLSX.utils.decode_range: 'A1:B3', or one cell 'A1'
decode_range(range) ==
    LET colon == {i \in 1..Len(range) : range[i] = ":"}
    IN  IF colon = {}
        THEN [s |-> decode_cell(range), e |-> decode_cell(range)]
        ELSE LET i == CHOOSE k \in colon : TRUE
             IN  [s |-> decode_cell(SubSeq(range, 1, i - 1)),
                  e |-> decode_cell(SubSeq(range, i + 1, Len(range)))]

refA1A1 == <<"A","1",":","A","1">>

\* (range.e.r - range.s.r + 1) * (range.e.c - range.s.c + 1) of
\* worksheet['!ref'] || 'A1:A1'
cellCountOf(worksheet) ==
    LET range == decode_range(IF worksheet.ref = Undefined \/ worksheet.ref = <<>>
                              THEN refA1A1 ELSE worksheet.ref)
    IN  (range.e.r - range.s.r + 1) * (range.e.c - range.s.c + 1)

\* the body of the loop with a later sheet of equal size replacing the best
bestSheetStep_LastWins(prev, name, cellCount) ==
    IF cellCount >= prev.maxCells
    THEN [bestSheet |-> name, maxCells |-> cellCount]
    ELSE prev
\* if (cellCount > maxCells) { maxCells = cellCount; bestSheet = sheetName }
bestSheetStep(prev, name, cellCount) ==
    IF cellCount > prev.maxCells
    THEN [bestSheet |-> name, maxCells |-> cellCount]
    ELSE prev

\* the loop of findBestSheet over the first k sheet names, from
\* bestSheet = sheetNames[0] and maxCells = 0
RECURSIVE bestUpTo(_, _)
bestUpTo(wb, k) ==
    IF k = 0
    THEN [bestSheet |-> IF Len(wb.SheetNames) > 0 THEN wb.SheetNames[1] ELSE Undefined,
          maxCells |-> 0]
    ELSE bestSheetStep(bestUpTo(wb, k - 1), wb.SheetNames[k],
                       cellCountOf(wb.Sheets[k]))

findBestSheet(wb) == bestUpTo(wb, Len(wb.SheetNames)).bestSheet

----------------------------------------------------------------------------
(* AIAgent (services/aiAgent.ts) *)

kwAverage == <<"a","v","e","r","a","g","e">>
kwMean == <<"m","e","a","n">>
kwCount == <<"c","o","u","n","t">>
kwHowMany == <<"h","o","w"," ","m","a","n","y">>
kwSum == <<"s","u","m">>
kwTotal == <<"t","o","t","a","l">>
kwGroupBy == <<"g","r","o","u","p"," ","b","y">>
kwBreakdown == <<"b","r","e","a","k","d","o","w","n">>
kwChart == <<"c","h","a","r","t">>
kwGraph == <<"g","r","a","p","h">>
kwPlot == <<"p","l","o","t">>
kwVisualize == <<"v","i","s","u","a","l","i","z","e">>
kwInsight == <<"i","n","s","i","g","h","t">>
kwTrend == <<"t","r","e","n","d">>
kwAnalysis == <<"a","n","a","l","y","s","i","s">>
kwShow == <<"s","h","o","w">>
kwFind == <<"f","i","n","d">>
sqlAvgHead == <<"S","E","L","E","C","T"," ","A","V","G","(">>
sqlAvgTail == <<")"," ","a","s"," ","a","v","e","r","a","g","e"," ","F","R","O","M"," ","d","a","t","a">>
sqlCount == <<"S","E","L","E","C","T"," ","C","O","U","N","T","(","*",")"," ","a","s"," ","c","o","u","n","t"," ","F","R","O","M"," ","d","a","t","a">>
sqlSumHead == <<"S","E","L","E","C","T"," ","S","U","M","(">>
sqlSumTail == <<")"," ","a","s"," ","t","o","t","a","l"," ","F","R","O","M"," ","d","a","t","a">>
sqlSelect == <<"S","E","L","E","C","T"," ">>
sqlGroupMid == <<","," ","C","O","U","N","T","(","*",")"," ","a","s"," ","c","o","u","n","t"," ","F","R","O","M"," ","d","a","t","a"," ","G","R","O","U","P"," ","B","Y"," ">>
sqlDefault == <<"S","E","L","E","C","T"," ","*"," ","F","R","O","M"," ","d","a","t","a"," ","L","I","M","I","T"," ","1","0","0">>
tokAvg == <<"A","V","G","(">>
tokCountStar == <<"C","O","U","N","T","(","*",")">>
tokSum == <<"S","U","M","(">>
tokGroupBy == <<"G","R","O","U","P"," ","B","Y">>
tokGroupBySp == <<"G","R","O","U","P"," ","B","Y"," ">>
keyAverage == <<"a","v","e","r","a","g","e">>
keyCount == <<"c","o","u","n","t">>
keyTotal == <<"t","o","t","a","l">>
numericKeywords == {<<"a","m","o","u","n","t">>,
    <<"p","r","i","c","e">>,
    <<"c","o","s","t">>,
    <<"v","a","l","u","e">>,
    <<"q","u","a","n","t","i","t","y">>,
    <<"n","u","m","b","e","r">>,
    <<"c","o","u","n","t">>}
categoryKeywords == {<<"c","a","t","e","g","o","r","y">>,
    <<"t","y","p","e">>,
    <<"s","t","a","t","u","s">>,
    <<"r","e","g","i","o","n">>,
    <<"d","e","p","a","r","t","m","e","n","t">>,
    <<"g","r","o","u","p">>,
    <<"c","l","a","s","s">>}

DefaultLimit == 100
ChartLimit == 20

findNumericColumns(columns) ==
    SelectSeq(columns, LAMBDA col : \E kw \in numericKeywords : includes(col, kw))

\* columns.find(...) || columns[0] || null, as a JavaScript value
findCategoryColumn(columns) ==
    LET hits == {i \in 1..Len(columns) : \E kw \in categoryKeywords : includes(columns[i], kw)}
    IN  IF hits # {} THEN Str(columns[CHOOSE i \in hits : \A j \in hits : i <= j])
        ELSE IF Len(columns) > 0 /\ columns[1] # <<>> THEN Str(columns[1])
        ELSE Null

\* generateSQLQuery with the count check moved in front of the average check
generateSQLQuery_CountFirst(q, columns) ==
    LET lowercaseQuestion == toLowerCase(q)
        availableColumns == [i \in 1..Len(columns) |-> toLowerCase(columns[i])]
        numericColumns == findNumericColumns(availableColumns)
        categoryColumn == findCategoryColumn(availableColumns)
    IN  IF includes(lowercaseQuestion, kwCount) \/ includes(lowercaseQuestion, kwHowMany)
        THEN sqlCount
        ELSE IF /\ includes(lowercaseQuestion, kwAverage) \/ includes(lowercaseQuestion, kwMean)
                /\ Len(numericColumns) > 0
        THEN sqlAvgHead \o numericColumns[1] \o sqlAvgTail
        ELSE IF /\ includes(lowercaseQuestion, kwSum) \/ includes(lowercaseQuestion, kwTotal)
                /\ Len(numericColumns) > 0
        THEN sqlSumHead \o numericColumns[1] \o sqlSumTail
        ELSE IF /\ includes(lowercaseQuestion, kwGroupBy) \/ includes(lowercaseQuestion, kwBreakdown)
                /\ categoryColumn # Null
                /\ Len(numericColumns) > 0
        THEN sqlSelect \o categoryColumn.s \o sqlGroupMid \o categoryColumn.s
        ELSE sqlDefault

generateSQLQuery(q, columns) ==
    LET lowercaseQuestion == toLowerCase(q)
        availableColumns == [i \in 1..Len(columns) |-> toLowerCase(columns[i])]
        numericColumns == findNumericColumns(availableColumns)
        categoryColumn == findCategoryColumn(availableColumns)
    IN  IF /\ includes(lowercaseQuestion, kwAverage) \/ includes(lowercaseQuestion, kwMean)
           /\ Len(numericColumns) > 0
        THEN sqlAvgHead \o numericColumns[1] \o sqlAvgTail
        ELSE IF includes(lowercaseQuestion, kwCount) \/ includes(lowercaseQuestion, kwHowMany)
        THEN sqlCount
        ELSE IF /\ includes(lowercaseQuestion, kwSum) \/ includes(lowercaseQuestion, kwTotal)
                /\ Len(numericColumns) > 0
        THEN sqlSumHead \o numericColumns[1] \o sqlSumTail
        ELSE IF /\ includes(lowercaseQuestion, kwGroupBy) \/ includes(lowercaseQuestion, kwBreakdown)
                /\ categoryColumn # Null
                /\ Len(numericColumns) > 0
        THEN sqlSelect \o categoryColumn.s \o sqlGroupMid \o categoryColumn.s
        ELSE sqlDefault

StartsAt(s, i, sub) == i + Len(sub) - 1 <= Len(s) /\ SubSeq(s, i, i + Len(sub) - 1) = sub

\* query.match(/(?:AVG|SUM)\(([^)]+)\)/): match[1] of the leftmost match, or ''
extractColumnFromQuery(query) ==
    LET closeAfter(i) == {j \in (i + 5)..Len(query) : query[j] = ")"}
        starts == {i \in 1..Len(query) :
                     /\ StartsAt(query, i, tokAvg) \/ StartsAt(query, i, tokSum)
                     /\ i + 4 <= Len(query) /\ query[i + 4] # ")"
                     /\ closeAfter(i) # {}}
    IN  IF starts = {} THEN <<>>
        ELSE LET i == CHOOSE a \in starts : \A b \in starts : a <= b
                 j == CHOOSE a \in closeAfter(i) : \A b \in closeAfter(i) : a <= b
             IN  SubSeq(query, i + 4, j - 1)

\* query.match(/GROUP BY ([^,\s]+)/): match[1] of the leftmost match, or ''
extractGroupByColumn(query) ==
    LET stopAfter(i) == {j \in (i + 9)..Len(query) : query[j] = "," \/ IsSpace(query[j])}
        starts == {i \in 1..Len(query) :
                     /\ StartsAt(query, i, tokGroupBySp)
                     /\ i + 9 <= Len(query)
                     /\ ~(query[i + 9] = "," \/ IsSpace(query[i + 9]))}
    IN  IF starts = {} THEN <<>>
        ELSE LET i == CHOOSE a \in starts : \A b \in starts : a <= b
                 j == IF stopAfter(i) = {} THEN Len(query) + 1
                      ELSE CHOOSE a \in stopAfter(i) : \A b \in stopAfter(i) : a <= b
             IN  SubSeq(query, i + 9, j - 1)

\* data.map(row => parseFloat(row[column])).filter(val => !isNaN(val))
numericValuesOf(data, column) ==
    SelectSeq([r \in 1..Len(data) |-> parseFloat(ObjGet(data[r], column))],
              LAMBDA val : val # NaN)

RECURSIVE SumNums(_)
SumNums(s) == IF Len(s) = 0 THEN 0 ELSE s[1].n + SumNums(Tail(s))

\* data.forEach(row => { groups[row[groupColumn]] = (groups[...] || 0) + 1 })
RECURSIVE groupCounts(_, _, _)
groupCounts(data, groupColumn, n) ==
    IF n = 0 THEN <<>>
    ELSE LET groups == groupCounts(data, groupColumn, n - 1)
             key == StringOf(ObjGet(data[n], groupColumn))
             old == ObjGet(groups, key)
         IN  ObjSet(groups, key, Num((IF old = Undefined THEN 0 ELSE old.n) + 1))

\* executeQuery with COUNT(*) counting the columns instead of the rows
executeQuery_CountColumns(sqlQuery, data, columns) ==
    IF includes(sqlQuery, tokAvg)
    THEN LET numericValues == numericValuesOf(data, extractColumnFromQuery(sqlQuery))
         IN  <<ObjSet(<<>>, keyAverage,
                      IF Len(numericValues) = 0 THEN NaN
                      ELSE FromHundredths(MathRoundDiv(100 * SumNums(numericValues),
                                                       Len(numericValues))))>>
    ELSE IF includes(sqlQuery, tokCountStar)
    THEN <<ObjSet(<<>>, keyCount, Num(Len(columns)))>>
    ELSE IF includes(sqlQuery, tokSum)
    THEN <<ObjSet(<<>>, keyTotal,
                  Num(SumNums(numericValuesOf(data, extractColumnFromQuery(sqlQuery)))))>>
    ELSE SubSeq(data, 1, Min(DefaultLimit, Len(data)))

executeQuery(sqlQuery, data, columns) ==
    IF includes(sqlQuery, tokAvg)
    THEN LET numericValues == numericValuesOf(data, extractColumnFromQuery(sqlQuery))
         IN  <<ObjSet(<<>>, keyAverage,
                      IF Len(numericValues) = 0 THEN NaN
                      ELSE FromHundredths(MathRoundDiv(100 * SumNums(numericValues),
                                                       Len(numericValues))))>>
    ELSE IF includes(sqlQuery, tokCountStar)
    THEN <<ObjSet(<<>>, keyCount, Num(Len(data)))>>
    ELSE IF includes(sqlQuery, tokSum)
    THEN <<ObjSet(<<>>, keyTotal,
                  Num(SumNums(numericValuesOf(data, extractColumnFromQuery(sqlQuery)))))>>
    ELSE IF includes(sqlQuery, tokGroupBy)
    THEN LET groupColumn == extractGroupByColumn(sqlQuery)
             groups == groupCounts(data, groupColumn, Len(data))
         IN  [i \in 1..Len(groups) |->
                 ObjSet(ObjSet(<<>>, groupColumn, Str(groups[i].k)), keyCount, groups[i].v)]
    ELSE SubSeq(data, 1, Min(DefaultLimit, Len(data)))

\* determineResultType with the insight check moved in front of the chart check
determineResultType_InsightFirst(q, result) ==
    LET lowercaseQuestion == toLowerCase(q)
    IN  IF \/ includes(lowercaseQuestion, kwInsight)
           \/ includes(lowercaseQuestion, kwTrend)
           \/ includes(lowercaseQuestion, kwAnalysis)
           \/ (Len(result) = 1 /\ Len(ObjKeys(result[1])) <= 2)
        THEN "insight"
        ELSE IF \/ includes(lowercaseQuestion, kwChart)
                \/ includes(lowercaseQuestion, kwGraph)
                \/ includes(lowercaseQuestion, kwPlot)
                \/ includes(lowercaseQuestion, kwVisualize)
        THEN "chart"
        ELSE "table"

determineResultType(q, result) ==
    LET lowercaseQuestion == toLowerCase(q)
    IN  IF \/ includes(lowercaseQuestion, kwChart)
           \/ includes(lowercaseQuestion, kwGraph)
           \/ includes(lowercaseQuestion, kwPlot)
           \/ includes(lowercaseQuestion, kwVisualize)
        THEN "chart"
        ELSE IF \/ includes(lowercaseQuestion, kwInsight)
                \/ includes(lowercaseQuestion, kwTrend)
                \/ includes(lowercaseQuestion, kwAnalysis)
                \/ (Len(result) = 1 /\ Len(ObjKeys(result[1])) <= 2)
        THEN "insight"
        ELSE "table"

ItemName(i) == Str(<<"I","t","e","m"," ">> \o NatToStr(i))

formatAsChart(result, q) ==
    IF Len(result) = 0
    THEN [kind |-> "chart", type |-> "bar", data |-> <<>>, title |-> "No Data"]
    ELSE LET keys == ObjKeys(result[1])
         IN  IF Len(keys) = 2 /\ InSeq(keys, keyCount)
             THEN LET others == {i \in 1..Len(keys) : keys[i] # keyCount}
                      found == IF others = {} THEN <<>>
                               ELSE keys[CHOOSE i \in others : \A j \in others : i <= j]
                      categoryKey == IF found # <<>> THEN found ELSE keys[1]
                  IN  [kind |-> "chart", type |-> "bar",
                       data |-> [i \in 1..Len(result) |->
                                   [name |-> ObjGet(result[i], categoryKey),
                                    value |-> ObjGet(result[i], keyCount)]],
                       title |-> "Distribution by"]
             ELSE [kind |-> "chart", type |-> "bar",
                   data |-> [i \in 1..Min(ChartLimit, Len(result)) |->
                               [name |-> ItemName(i),
                                value |-> IF Len(result[i]) = 0 THEN Undefined
                                          ELSE ObjValues(result[i])[1]]],
                   title |-> "Data Visualization"]

formatAsTable(result, q) ==
    IF Len(result) = 0
    THEN [kind |-> "table", columns |-> <<>>, rows |-> <<>>, title |-> "No Results"]
    ELSE [kind |-> "table", columns |-> ObjKeys(result[1]),
          rows |-> SubSeq(result, 1, Min(DefaultLimit, Len(result))),
          title |-> "Query Results"]

\* confidence in hundredths
formatAsInsight(result, q) ==
    IF Len(result) = 0
    THEN [kind |-> "insight", type |-> "summary", title |-> "No Data Available",
          value |-> Undefined, confidence |-> 10]
    ELSE LET firstResult == result[1]
             keys == ObjKeys(firstResult)
         IN  IF InSeq(keys, keyAverage)
             THEN [kind |-> "insight", type |-> "summary", title |-> "Average Analysis",
                   value |-> ObjGet(firstResult, keyAverage), confidence |-> 90]
             ELSE IF InSeq(keys, keyCount)
             THEN [kind |-> "insight", type |-> "summary", title |-> "Count Analysis",
                   value |-> ObjGet(firstResult, keyCount), confidence |-> 95]
             ELSE IF InSeq(keys, keyTotal)
             THEN [kind |-> "insight", type |-> "summary", title |-> "Sum Analysis",
                   value |-> ObjGet(firstResult, keyTotal), confidence |-> 90]
             ELSE [kind |-> "insight", type |-> "summary", title |-> "Analysis Complete",
                   value |-> Num(Len(result)), confidence |-> 80]

\* question.split(' ').length
splitLength(q) == Cardinality({i \in 1..Len(q) : q[i] = " "}) + 1

\* calculateConfidenceScore without Math.min(0.95, ...)
calculateConfidenceScore_NoCap(q, result) ==
    IF Len(result) = 0 THEN 10
    ELSE 80 + (IF includes(q, kwShow) \/ includes(q, kwFind) THEN 10 ELSE 0)
            + (IF splitLength(q) > 5 THEN 10 ELSE 0)
\* in hundredths
calculateConfidenceScore(q, result) ==
    IF Len(result) = 0 THEN 10
    ELSE Min(95, 80 + (IF includes(q, kwShow) \/ includes(q, kwFind) THEN 10 ELSE 0)
                    + (IF splitLength(q) > 5 THEN 10 ELSE 0))

formatResult(resultType, queryResult, q) ==
    CASE resultType = "chart" -> formatAsChart(queryResult, q)
      [] resultType = "insight" -> formatAsInsight(queryResult, q)
      [] OTHER -> formatAsTable(queryResult, q)

\* A row that is null makes row[column], Object.keys(row) and
\* Object.values(row) throw a TypeError.  Among the objects, which are
\* sequences of properties, the row null is the sequence of the value null.
\* The three predicates say when a step of the try block throws; the data
\* processor produces no such row.
NullRow == <<Null>>
IsNullRow(row) == Len(row) = 1 /\ "t" \in DOMAIN row[1]

executeQueryThrows(sqlQuery, data) ==
    /\ \/ includes(sqlQuery, tokAvg)
       \/ ~includes(sqlQuery, tokCountStar)
          /\ (includes(sqlQuery, tokSum) \/ includes(sqlQuery, tokGroupBy))
    /\ \E r \in 1..Len(data) : IsNullRow(data[r])

determineResultTypeThrows(q, result) ==
    /\ determineResultType(q, <<>>) = "table"
    /\ Len(result) = 1
    /\ IsNullRow(result[1])

formatResultThrows(resultType, result) ==
    /\ Len(result) > 0
    /\ \/ IsNullRow(result[1])
       \/ /\ resultType = "chart"
          /\ \E i \in 1..(IF Len(result[1]) = 2 /\ ObjHas(result[1], keyCount)
                          THEN Len(result) ELSE Min(ChartLimit, Len(result))) :
                 IsNullRow(result[i])

\* what the catch block returns (confidence in hundredths; the object has no
\* sql_query property, which reads as undefined)
AnalysisError ==
    [sqlQuery |-> <<>>, queryResult |-> <<>>, caught |-> TRUE,
     result |-> [type |-> "insight",
                 data |-> [kind |-> "insight", type |-> "summary",
                           title |-> "Analysis Error", value |-> Undefined,
                           confidence |-> 10],
                 sql_query |-> Undefined,
                 confidence_score |-> 10]]

\* the promise of processQuery rejected
Rejected == [sqlQuery |-> <<>>, queryResult |-> <<>>, caught |-> FALSE,
             result |-> [type |-> "rejected"]]

\* The try block of processQuery; `thrown` is where an exception of one of
\* its steps ends.  sqlQuery, queryResult and resultType are the local
\* constants of the body.
tryProcessQuery(q, data, columns, thrown) ==
    LET answer(sqlQuery, queryResult, resultType) ==
            IF formatResultThrows(resultType, queryResult) THEN thrown
            ELSE [sqlQuery |-> sqlQuery,
                  queryResult |-> queryResult,
                  caught |-> FALSE,
                  result |-> [type |-> resultType,
                              data |-> formatResult(resultType, queryResult, q),
                              sql_query |-> sqlQuery,
                              confidence_score |-> calculateConfidenceScore(q, queryResult)]]
        executed(sqlQuery, queryResult) ==
            IF determineResultTypeThrows(q, queryResult) THEN thrown
            ELSE answer(sqlQuery, queryResult, determineResultType(q, queryResult))
        generated(sqlQuery) ==
            IF executeQueryThrows(sqlQuery, data) THEN thrown
            ELSE executed(sqlQuery, executeQuery(sqlQuery, data, columns))
    IN  generated(generateSQLQuery(q, columns))

\* processQuery without its try / catch
processQuery_NoCatch(q, data, columns) == tryProcessQuery(q, data, columns, Rejected)
\* try { ... } catch (error) { return { type: 'insight', ... } }
processQuery(q, data, columns) == tryProcessQuery(q, data, columns, AnalysisError)

----------------------------------------------------------------------------
(* Bounded inputs *)

MaxCols == 3        \* widest sheet
MaxRows == 2        \* most rows below the header row
MaxWords == 2       \* most words of a question

SeqsUpTo(S, n) == UNION {[1..k -> S] : k \in 0..n}

\* ---- sheets for the query agent: named columns, every cell of a row alike
QueryHeaderCells == {Str(<<"A","m","o","u","n","t">>),
                     Str(<<"t","y","p","e">>),
                     Str(<<"N","a","m","e">>)}
QueryCells == {Null, Num(2)}
QuerySheets ==
    {<<h>> \o [i \in 1..Len(cs) |-> [j \in 1..Len(h) |-> cs[i]]] :
        h \in SeqsUpTo(QueryHeaderCells, MaxCols) \ {<<>>},
        cs \in SeqsUpTo(QueryCells, MaxRows)}

\* ---- questions: words and phrases joined by single spaces
Words == {<<"A","v","e","r","a","g","e">>, kwMean, kwCount, kwHowMany,
          <<"S","U","M">>, kwTotal, <<"g","r","o","u","p">>, kwGroupBy,
          <<"B","r","e","a","k","d","o","w","n">>,
          kwChart, kwGraph, kwPlot, <<"V","i","s","u","a","l","i","z","e">>,
          kwInsight, kwTrend, <<"A","n","a","l","y","s","i","s">>,
          kwShow, <<"r","o","w","s">>}
CoreWords == {<<"A","v","e","r","a","g","e">>, kwCount, kwTotal, kwGroupBy, kwChart}

RECURSIVE JoinWords(_)
JoinWords(ws) == IF Len(ws) = 0 THEN <<>>
                 ELSE IF Len(ws) = 1 THEN ws[1]
                 ELSE ws[1] \o <<" ">> \o JoinWords(Tail(ws))

Questions == Words \cup {JoinWords(ws) : ws \in SeqsUpTo(CoreWords, MaxWords) \ {<<>>}}

----------------------------------------------------------------------------
(* The pipeline: one sheet is processed, one question is asked about it *)

NoOutcome == [sqlQuery |-> <<>>, queryResult |-> <<>>, caught |-> FALSE, result |-> Null]
NoProcessed == [data |-> <<>>, columns |-> <<>>,
                metadata |-> [rowCount |-> 0, columnCount |-> 0,
                              dataQualityScore |-> Num(0)]]

\* no workbook is being read and no table is mounted
NoWorkbook == [SheetNames |-> <<>>, Sheets |-> <<>>]
NoTable == [columns |-> <<>>, rows |-> <<>>]
PartsIdle ==
    /\ workbook = NoWorkbook
    /\ sheetName = Undefined
    /\ tableData = NoTable
    /\ currentPage = 1
    /\ csvContent = Null

AppIdle ==
    /\ PartsIdle
    /\ processedData = Null
    /\ isProcessing = FALSE
    /\ error = Null
    /\ uploads = {}
    /\ nextUpload = 0
    /\ messages = <<>>
    /\ input = <<>>
    /\ isLoading = FALSE
    /\ queries = {}

InitQuery ==
    /\ pc = "start"
    /\ rawData \in QuerySheets
    /\ processed = NoProcessed
    /\ question = <<>>
    /\ outcome = NoOutcome
    /\ AppIdle

\* reader.onload of processExcelFile, from sheet_to_json on
ProcessFile ==
    /\ pc = "start"
    /\ \E east \in BOOLEAN : processed' = processSheet(rawData, east)
    /\ pc' = "processed"
    /\ UNCHANGED <<rawData, question, outcome>>
    /\ UNCHANGED <<appVars, chatVars, sheetVars, tableVars>>

\* AIAgent.processQuery(question, data, columns) on the processed file
AskQuestion ==
    /\ pc = "processed"
    /\ \E q \in Questions :
          /\ question' = q
          /\ outcome' = processQuery(q, processed.data, processed.columns)
    /\ pc' = "answered"
    /\ UNCHANGED <<rawData, processed>>
    /\ UNCHANGED <<appVars, chatVars, sheetVars, tableVars>>

NextQuery == ProcessFile \/ AskQuestion

SpecQuery == InitQuery /\ [][NextQuery]_vars

\* ---- questions for the confidence score: an opening with and without
\* 'show' / 'find', in several cases, followed by up to MaxFill more words
MaxFill == 6        \* most words after the opening
ScoreSheets ==
    {<<<<Str(<<"A","m","o","u","n","t">>), Str(<<"t","y","p","e">>)>>>>
     \o [i \in 1..Len(cs) |-> <<cs[i], cs[i]>>] : cs \in SeqsUpTo(QueryCells, MaxRows)}
Openings == {kwShow, kwFind, <<"S","h","o","w">>, <<"F","I","N","D">>,
             <<"f","i","n","d","i","n","g","s">>, <<"l","i","s","t">>,
             <<"l","i","s","t"," "," ","a","l","l">>,
             kwCount, kwTotal \o <<" ">> \o <<"A","m","o","u","n","t">>}
LongQuestions ==
    {JoinWords(<<opening>> \o [i \in 1..n |-> <<"m","e">>]) :
        opening \in Openings, n \in 0..MaxFill}

InitScore ==
    /\ pc = "start"
    /\ rawData \in ScoreSheets
    /\ processed = NoProcessed
    /\ question = <<>>
    /\ outcome = NoOutcome
    /\ AppIdle

\* AIAgent.processQuery(question, data, columns) with a question of any length
AskLongQuestion ==
    /\ pc = "processed"
    /\ \E q \in LongQuestions :
          /\ question' = q
          /\ outcome' = processQuery(q, processed.data, processed.columns)
    /\ pc' = "answered"
    /\ UNCHANGED <<rawData, processed>>
    /\ UNCHANGED <<appVars, chatVars, sheetVars, tableVars>>

NextScore == ProcessFile \/ AskLongQuestion

SpecScore == InitScore /\ [][NextScore]_vars

\* ---- a caller of processQuery with rows of its own, some of them null
MaxCallerRows == 2
CallerColumns == <<<<"a","m","o","u","n","t">>, <<"t","y","p","e">>>>
CallerRows == {NullRow,
               <<[k |-> CallerColumns[1], v |-> Num(2)], [k |-> CallerColumns[2], v |-> Str(<<"x">>)]>>,
               <<[k |-> CallerColumns[1], v |-> Null], [k |-> CallerColumns[2], v |-> Str(<<"y">>)]>>}

InitCaller ==
    /\ pc = "processed"
    /\ rawData = <<>>
    /\ \E rows \in SeqsUpTo(CallerRows, MaxCallerRows) :
          processed = [data |-> rows, columns |-> CallerColumns,
                       metadata |-> NoProcessed.metadata]
    /\ question = <<>>
    /\ outcome = NoOutcome
    /\ AppIdle

SpecCaller == InitCaller /\ [][AskQuestion]_vars

\* ---- long datasets for the limits of the results: up to MaxBulkRows rows
\* of two columns, with and without a column named 'count'
MaxBulkRows == 101
BulkColumns == {<<<<"t","y","p","e">>, keyCount>>,
                <<<<"a","m","o","u","n","t">>, <<"t","y","p","e">>>>}
BulkRows(columns, n) ==
    [i \in 1..n |-> <<[k |-> columns[1], v |-> Num(i % 3)],
                      [k |-> columns[2], v |-> Num(2)]>>]

InitBulk ==
    /\ pc = "processed"
    /\ rawData = <<>>
    /\ \E columns \in BulkColumns, n \in 0..MaxBulkRows :
          processed = [data |-> BulkRows(columns, n), columns |-> columns,
                       metadata |-> NoProcessed.metadata]
    /\ question = <<>>
    /\ outcome = NoOutcome
    /\ AppIdle

SpecBulk == InitBulk /\ [][AskQuestion]_vars

\* ---- sheets for the data processor: unnamed, unusable and duplicate header
\* cells, cells of every type, an optional blank row above the header
DataMaxCols == 2
DataMaxRows == 2
DataHeaderCells == {Null,
                    Hole,
                    Str(<<"!","!">>),
                    Str(<<"T","o","t","a","l"," ","A","m","o","u","n","t">>),
                    Num(7)}
DataCells == {Null, Num(30000), Str(<<"x">>), Str(<<"7">>)}
\* a sequence of n elements that takes its first two from `first` and
\* repeats them after that
Repeating(first, n) == [i \in 1..n |-> first[((i - 1) % 2) + 1]]
\* every row and every sheet of up to two cells each way; a third cell or
\* row and the ones after it repeat the first two
DataRowsOfWidth(w) == {Repeating(first, w) : first \in [1..Min(w, 2) -> DataCells]}
DataSheets ==
    {<<>>} \cup
    {pre \o <<h>> \o rows :
        pre \in {<<>>, << <<>> >>},
        h \in {c \in SeqsUpTo(DataHeaderCells, DataMaxCols) :
                    Len(c) = 0 \/ c[Len(c)] # Hole},
        rows \in UNION {{Repeating(first, n) : first \in [1..Min(n, 2) -> DataRowsOfWidth(w)]} :
                            w \in 0..DataMaxCols, n \in 0..DataMaxRows}}

InitData ==
    /\ pc = "start"
    /\ rawData \in DataSheets
    /\ processed = NoProcessed
    /\ question = <<>>
    /\ outcome = NoOutcome
    /\ AppIdle

NextData == ProcessFile

SpecData == InitData /\ [][NextData]_vars

\* ---- workbooks for the sheet selection: Sheets[k] is the worksheet of
\* SheetNames[k]
MaxSheets == 3
Refs == {Undefined, <<"A","1">>, <<"A","1",":","B","2">>, <<"A","1",":","C","1">>,
         <<"B","2",":","C","3">>, <<"A","2",":","A","4">>, <<"A","1",":","C","3">>}
SheetNameOf(k) == <<"S","h","e","e","t">> \o NatToStr(k)
Workbooks ==
    {[SheetNames |-> [k \in 1..Len(refs) |-> SheetNameOf(k)],
      Sheets |-> [k \in 1..Len(refs) |-> [ref |-> refs[k]]]] :
        refs \in SeqsUpTo(Refs, MaxSheets) \ {<<>>}}

InitSheet ==
    /\ pc = "workbook"
    /\ rawData = <<>>
    /\ processed = NoProcessed
    /\ question = <<>>
    /\ outcome = NoOutcome
    /\ processedData = Null
    /\ isProcessing = FALSE
    /\ error = Null
    /\ uploads = {}
    /\ nextUpload = 0
    /\ messages = <<>>
    /\ input = <<>>
    /\ isLoading = FALSE
    /\ queries = {}
    /\ workbook \in Workbooks
    /\ sheetName = Undefined
    /\ tableData = NoTable
    /\ currentPage = 1
    /\ csvContent = Null

\* const sheetName = this.findBestSheet(workbook)
FindBestSheet ==
    /\ pc = "workbook"
    /\ sheetName' = findBestSheet(workbook)
    /\ pc' = "sheet"
    /\ UNCHANGED <<rawData, processed, question, outcome, workbook>>
    /\ UNCHANGED <<appVars, chatVars, tableVars>>

NextSheet == FindBestSheet

SpecSheet == InitSheet /\ [][NextSheet]_vars

\* ---- sheets for the coercion of one cell: a header row of two names and
\* one data row, the cell under test and a filled cell that keeps the row
MaxCellLen == 3     \* longest string over CellAlphabet
CellAlphabet == {" ", "7", "-", "t"}
CellHeader == <<Str(<<"a">>), Str(<<"b">>)>>
CellNumbers == {Num(0 - 1), Num(0), Num(24999), Num(25000), Num(25001), Num(36526),
                Num(49999), Num(50000), Num(50001)}
CellWords == {<<"t","r","u","e">>, <<"T","R","U","E">>, <<" ","T","r","u","e"," ">>,
              <<"f","a","l","s","e">>, <<"F","a","l","s","e"," ">>,
              <<"t","r","u","e","x">>, <<"3","0","0","0","0">>, <<" ","-","4","2"," ">>}
Cells == {Null, Hole, Bool(TRUE), Bool(FALSE)}
         \cup CellNumbers
         \cup {Str(w) : w \in SeqsUpTo(CellAlphabet, MaxCellLen) \cup CellWords}
CellSheets == {<<CellHeader, <<cell, Num(1)>>>> : cell \in Cells}

InitCell ==
    /\ pc = "start"
    /\ rawData \in CellSheets
    /\ processed = NoProcessed
    /\ question = <<>>
    /\ outcome = NoOutcome
    /\ AppIdle

SpecCell == InitCell /\ [][NextData]_vars

----------------------------------------------------------------------------
(* The application: App.tsx, FileUpload.tsx, ChatInterface.tsx             *)
(*                                                                         *)
(* One action is one browser task.  FileReader delivers onload / onerror   *)
(* in a later task, so other events come between a drop and the end of     *)
(* its handleFileUpload.  processQuery awaits only a promise that is       *)
(* already resolved (generateSQLQuery has no await), so it and the rest of *)
(* handleSubmit run in the microtask checkpoint that follows the submit    *)
(* event, before any other task: while a query is unsettled no other       *)
(* task runs.                                                              *)

MaxUploads == 2     \* handleFileUpload calls in one run
MaxMessages == 5    \* length of the chat

ErrorText(text) == [t |-> "string", text |-> text]

AppSheets == {
    << <<Str(<<"a","m","o","u","n","t">>), Str(<<"t","y","p","e">>)>>,
       <<Num(2), Str(<<"x">>)>>, <<Num(3), Str(<<"y">>)>> >>,
    << <<Str(<<"N","a","m","e">>)>>, <<Str(<<"x">>)>> >> }

\* a file the user can drop: a workbook, a file FileReader cannot read, or
\* bytes XLSX.read throws on
Files == {[kind |-> "ok", sheet |-> s] : s \in AppSheets}
         \cup {[kind |-> "unreadable", sheet |-> <<>>],
               [kind |-> "corrupt", sheet |-> <<>>]}

\* what processExcelFile resolves with for each workbook, east and west of
\* Greenwich
FileResults ==
    {[sheet |-> s, result |-> processSheet(s, east)] : s \in AppSheets, east \in BOOLEAN}

AppInputs == {<<" ", " ">>,
              <<" ">> \o kwCount,
              <<"A","v","e","r","a","g","e">>,
              kwChart \o <<" ">>}

\* Date.now() in ms after the mount of ChatInterface, up to MaxClock.  The
\* clock does not run backwards: a reading is at least the one the last
\* message was made with (a user message at `now`, a reply at `now` + 1).
MaxClock == 1
DateNow(msgs) ==
    LET last == msgs[Len(msgs)]
        lastReading == IF last.tag = "greeting" THEN 0
                       ELSE IF last.type = "user" THEN last.id.ms
                       ELSE last.id.ms - 1
    IN  {now \in 0..MaxClock : now >= lastReading}
\* (ms).toString() of a time in ms after the mount: the numeral of a present
\* day time, of 13 digits
TimeToString(ms) == [t |-> "string", ms |-> ms]

Greeting == [id |-> Str(<<"1">>), type |-> "assistant", tag |-> "greeting",
             content |-> <<>>, result |-> Null]

\* the render of App: FileUpload is shown iff !processedData, DataOverview
\* and ChatInterface otherwise
UploadViewShown == processedData = Null
ChatMounted == processedData # Null

InitApp ==
    /\ pc = "app"
    /\ rawData = <<>>
    /\ processed = NoProcessed
    /\ question = <<>>
    /\ outcome = NoOutcome
    /\ AppIdle

NoTaskPending == queries = {}

\* handleFileUpload(file) up to its await.  An unsettled call is kept with
\* its file and two facts of its history: processedData when it started,
\* and whether handleNewFile has run since
handleFileUploadStart(file) ==
    /\ isProcessing' = TRUE
    /\ error' = Null
    /\ uploads' = uploads \cup {[id |-> nextUpload, file |-> file,
                                  before |-> processedData, reset |-> FALSE]}
    /\ nextUpload' = nextUpload + 1
    /\ UNCHANGED processedData

\* a file dropped on the dropzone root: onDrop -> onFileUpload(file).  The
\* hook is not given `disabled`, so the drop handlers of the root stay
\* active while isProcessing.
DropFile ==
    /\ pc = "app" /\ NoTaskPending
    /\ UploadViewShown
    /\ nextUpload < MaxUploads
    /\ \E file \in Files : handleFileUploadStart(file)
    /\ UNCHANGED <<pipeVars, sheetVars, tableVars, chatVars>>

\* a file chosen through the <input>, which is disabled while isProcessing
SelectFile ==
    /\ pc = "app" /\ NoTaskPending
    /\ UploadViewShown
    /\ ~isProcessing
    /\ nextUpload < MaxUploads
    /\ \E file \in Files : handleFileUploadStart(file)
    /\ UNCHANGED <<pipeVars, sheetVars, tableVars, chatVars>>

\* reader.onload resolves; handleFileUpload resumes: setProcessedData, then
\* finally setIsProcessing(false).  ChatInterface mounts with its initial
\* state if the analysis view was not shown, and keeps its state otherwise.
UploadResolve ==
    /\ pc = "app" /\ NoTaskPending
    /\ \E u \in uploads :
          /\ u.file.kind = "ok"
          /\ \E read \in FileResults :
                /\ read.sheet = u.file.sheet
                /\ processedData' = [data |-> read.result.data,
                                     columns |-> read.result.columns,
                                     metadata |-> read.result.metadata]
          /\ uploads' = uploads \ {u}
    /\ isProcessing' = FALSE
    /\ IF ChatMounted
       THEN UNCHANGED chatVars
       ELSE /\ messages' = <<Greeting>>
            /\ input' = <<>>
            /\ isLoading' = FALSE
            /\ queries' = {}
    /\ UNCHANGED <<error, nextUpload, pipeVars, sheetVars, tableVars>>

\* reader.onerror, or the catch of reader.onload, rejects; handleFileUpload
\* resumes in its catch: setError(err.message), then finally
UploadReject ==
    /\ pc = "app" /\ NoTaskPending
    /\ \E u \in uploads :
          /\ u.file.kind # "ok"
          /\ error' = IF u.file.kind = "unreadable"
                      THEN ErrorText("Failed to read file")
                      ELSE ErrorText("Failed to process Excel file: ...")
          /\ uploads' = uploads \ {u}
    /\ isProcessing' = FALSE
    /\ UNCHANGED <<processedData, nextUpload, pipeVars, sheetVars, tableVars, chatVars>>

\* handleNewFile without setError(null)
handleNewFile_KeepsError ==
    /\ pc = "app" /\ NoTaskPending
    /\ processedData # Null
    /\ processedData' = Null
    /\ error' = error
    /\ messages' = <<>>
    /\ input' = <<>>
    /\ isLoading' = FALSE
    /\ queries' = {}
    /\ uploads' = {[u EXCEPT !.reset = TRUE] : u \in uploads}
    /\ UNCHANGED <<isProcessing, nextUpload, pipeVars, sheetVars, tableVars>>

\* handleNewFile; the analysis view, and with it ChatInterface, unmounts
handleNewFile ==
    /\ pc = "app" /\ NoTaskPending
    /\ processedData # Null
    /\ processedData' = Null
    /\ error' = Null
    /\ messages' = <<>>
    /\ input' = <<>>
    /\ isLoading' = FALSE
    /\ queries' = {}
    /\ uploads' = {[u EXCEPT !.reset = TRUE] : u \in uploads}
    /\ UNCHANGED <<isProcessing, nextUpload, pipeVars, sheetVars, tableVars>>

\* onChange of the chat input, which is disabled while isLoading
TypeInput ==
    /\ pc = "app" /\ NoTaskPending
    /\ ChatMounted
    /\ ~isLoading
    /\ \E text \in AppInputs : input' = text
    /\ UNCHANGED <<messages, isLoading, queries, pipeVars, sheetVars, tableVars, appVars>>

\* handleSubmit without setIsLoading(true)
handleSubmit_NoLoading ==
    /\ pc = "app"
    /\ ChatMounted
    /\ IF trim(input) = <<>> \/ isLoading
       THEN UNCHANGED chatVars
       ELSE /\ Len(messages) + 2 <= MaxMessages
            /\ \E now \in DateNow(messages) :
                  messages' = Append(messages, [id |-> TimeToString(now),
                                                type |-> "user", tag |-> "user",
                                                content |-> trim(input), result |-> Null])
            /\ input' = <<>>
            /\ isLoading' = isLoading
            /\ queries' = queries \cup {[q |-> trim(input),
                                         data |-> processedData.data,
                                         columns |-> processedData.columns]}
    /\ UNCHANGED <<pipeVars, sheetVars, tableVars, appVars>>

\* handleSubmit with `if (isLoading) return` as its only guard
handleSubmit_BlankAccepted ==
    /\ pc = "app"
    /\ ChatMounted
    /\ IF isLoading
       THEN UNCHANGED chatVars
       ELSE /\ Len(messages) + 2 <= MaxMessages
            /\ \E now \in DateNow(messages) :
                  messages' = Append(messages, [id |-> TimeToString(now),
                                                type |-> "user", tag |-> "user",
                                                content |-> trim(input), result |-> Null])
            /\ input' = <<>>
            /\ isLoading' = TRUE
            /\ queries' = queries \cup {[q |-> trim(input),
                                         data |-> processedData.data,
                                         columns |-> processedData.columns]}
    /\ UNCHANGED <<pipeVars, sheetVars, tableVars, appVars>>

\* handleSubmit up to its await
handleSubmit ==
    /\ pc = "app"
    /\ ChatMounted
    /\ IF trim(input) = <<>> \/ isLoading
       THEN UNCHANGED chatVars
       ELSE /\ Len(messages) + 2 <= MaxMessages
            /\ \E now \in DateNow(messages) :
                  messages' = Append(messages, [id |-> TimeToString(now),
                                                type |-> "user", tag |-> "user",
                                                content |-> trim(input), result |-> Null])
            /\ input' = <<>>
            /\ isLoading' = TRUE
            /\ queries' = queries \cup {[q |-> trim(input),
                                         data |-> processedData.data,
                                         columns |-> processedData.columns]}
    /\ UNCHANGED <<pipeVars, sheetVars, tableVars, appVars>>

\* `this` inside the arrow function handleSubmit is the `this` of the
\* function component ChatInterface, which React calls without a receiver
\* in strict (module) code
ThisOfChatInterface == Undefined

\* this.generateResponseText(result) at ChatInterface.tsx:61
generateResponseTextCall(result) ==
    IF ThisOfChatInterface = Undefined
    THEN [threw |-> TRUE, text |-> "TypeError"]
    ELSE [threw |-> FALSE, text |-> result.type]

\* handleSubmit resuming after its await with a catch block that appends
\* no message
QuerySettle_NoApology ==
    /\ pc = "app"
    /\ \E call \in queries :
          LET setMessages(result, text) ==
                  \E now \in DateNow(messages) :
                  messages' = IF text.threw THEN messages
                              ELSE Append(messages,
                                          [id |-> TimeToString(now + 1),
                                           type |-> "assistant", tag |-> "response",
                                           content |-> <<>>, result |-> result])
              resumed(result) ==
                  setMessages(result, generateResponseTextCall(result))
          IN  /\ resumed(processQuery(call.q, call.data, call.columns).result)
              /\ queries' = queries \ {call}
    /\ isLoading' = FALSE
    /\ UNCHANGED <<input, pipeVars, sheetVars, tableVars, appVars>>

\* handleSubmit resuming after its await without the finally block
QuerySettle_KeepsLoading ==
    /\ pc = "app"
    /\ \E call \in queries :
          LET setMessages(result, text) ==
                  \E now \in DateNow(messages) :
                  messages' = Append(messages,
                     IF text.threw
                     THEN [id |-> TimeToString(now + 1),
                           type |-> "assistant", tag |-> "apology",
                           content |-> <<>>, result |-> Null]
                     ELSE [id |-> TimeToString(now + 1),
                           type |-> "assistant", tag |-> "response",
                           content |-> <<>>, result |-> result])
              resumed(result) ==
                  setMessages(result, generateResponseTextCall(result))
          IN  /\ resumed(processQuery(call.q, call.data, call.columns).result)
              /\ queries' = queries \ {call}
    /\ isLoading' = isLoading
    /\ UNCHANGED <<input, pipeVars, sheetVars, tableVars, appVars>>

\* processQuery returns; handleSubmit resumes after its await
QuerySettle ==
    /\ pc = "app"
    /\ \E call \in queries :
          LET setMessages(result, text) ==
                  \E now \in DateNow(messages) :
                  messages' = Append(messages,
                     IF text.threw
                     THEN [id |-> TimeToString(now + 1),
                           type |-> "assistant", tag |-> "apology",
                           content |-> <<>>, result |-> Null]
                     ELSE [id |-> TimeToString(now + 1),
                           type |-> "assistant", tag |-> "response",
                           content |-> <<>>, result |-> result])
              resumed(result) ==
                  setMessages(result, generateResponseTextCall(result))
          IN  /\ resumed(processQuery(call.q, call.data, call.columns).result)
              /\ queries' = queries \ {call}
    /\ isLoading' = FALSE
    /\ UNCHANGED <<input, pipeVars, sheetVars, tableVars, appVars>>

Next ==
    \/ SelectFile
    \/ DropFile
    \/ UploadResolve
    \/ UploadReject
    \/ handleNewFile
    \/ TypeInput
    \/ handleSubmit
    \/ QuerySettle

Init == InitApp

Spec == Init /\ [][Next]_vars

\* Every started task ends: the promise of processQuery settles in the
\* microtask checkpoint of the submit event, and a FileReader fires onload
\* or onerror for every readAsArrayBuffer.
FairSpec ==
    /\ Init /\ [][Next]_vars
    /\ WF_vars(QuerySettle)
    /\ WF_vars(UploadResolve)
    /\ WF_vars(UploadReject)

----------------------------------------------------------------------------
(* TableVisualization (components/TableVisualization.tsx): one mounted     *)
(* table with its page state and the text of the last export.              *)

itemsPerPage == 10

\* Array.prototype.slice(start, end), indices from 0
slice(arr, start, end) == SubSeq(arr, start + 1, Min(end, Len(arr)))

\* Array.prototype.join of strings
RECURSIVE joinWith(_, _)
joinWith(parts, sep) ==
    IF Len(parts) = 0 THEN <<>>
    ELSE IF Len(parts) = 1 THEN parts[1]
    ELSE joinWith(SubSeq(parts, 1, Len(parts) - 1), sep) \o sep \o parts[Len(parts)]

\* Math.ceil(data.rows.length / itemsPerPage) rounded down instead
totalPages_Floor(data) == Len(data.rows) \div itemsPerPage
\* Math.ceil(data.rows.length / itemsPerPage)
totalPages(data) == (Len(data.rows) + itemsPerPage - 1) \div itemsPerPage

startIndex(page) == (page - 1) * itemsPerPage
endIndex(page) == startIndex(page) + itemsPerPage
currentRows(data, page) == slice(data.rows, startIndex(page), endIndex(page))

\* one cell of the export
exportCell(value) ==
    IF TypeOf(value) = "string" /\ InSeq(value.s, ",")
    THEN <<"\"">> \o value.s \o <<"\"">>
    ELSE IF value = Null \/ value = Undefined THEN <<>> ELSE StringOf(value)

\* the text handleExport hands to the Blob
exportText(data) ==
    joinWith(<<joinWith(data.columns, <<",">>)>>
             \o [r \in 1..Len(data.rows) |->
                    joinWith([c \in 1..Len(data.columns) |->
                                 exportCell(ObjGet(data.rows[r], data.columns[c]))],
                             <<",">>)],
             <<"\n">>)

\* the pagination controls are rendered
ControlsShown(data) == Len(data.rows) # 0 /\ totalPages(data) > 1

\* ---- tables: long ones with plain cells for the paging, short ones with
\* every kind of cell for the export
MaxTableRows == 21  \* most rows of a table
MaxExportRows == 2  \* most rows of a table with mixed cells
TableColumns == <<<<"i","d">>, <<"n","a","m","e">>>>
TableCells == {Null, Undefined, Num(7), Bool(TRUE),
               Str(<<"o","k">>), Str(<<"a",",","b">>), Str(<<"a","\"","b">>),
               Str(<<"a","\n","b">>), Str(<<"a",",","\"","b","\"">>)}
TableRow(n, cell) ==
    IF cell = Undefined THEN <<[k |-> TableColumns[1], v |-> Num(n)]>>
    ELSE <<[k |-> TableColumns[1], v |-> Num(n)], [k |-> TableColumns[2], v |-> cell]>>
Tables ==
    {[columns |-> TableColumns, rows |-> [n \in 1..len |-> TableRow(n, Str(<<"o","k">>))]] :
        len \in 0..MaxTableRows}
    \cup {[columns |-> TableColumns, rows |-> [n \in 1..Len(cells) |-> TableRow(n, cells[n])]] :
        cells \in SeqsUpTo(TableCells, MaxExportRows)}

InitTable ==
    /\ pc = "table"
    /\ rawData = <<>>
    /\ processed = NoProcessed
    /\ question = <<>>
    /\ outcome = NoOutcome
    /\ processedData = Null
    /\ isProcessing = FALSE
    /\ error = Null
    /\ uploads = {}
    /\ nextUpload = 0
    /\ messages = <<>>
    /\ input = <<>>
    /\ isLoading = FALSE
    /\ queries = {}
    /\ workbook = NoWorkbook
    /\ sheetName = Undefined
    /\ tableData \in Tables
    /\ currentPage = 1
    /\ csvContent = Null

\* onClick of an enabled Previous button
ClickPrevious ==
    /\ pc = "table"
    /\ ControlsShown(tableData)
    /\ currentPage # 1
    /\ currentPage' = Max(1, currentPage - 1)
    /\ UNCHANGED <<tableData, csvContent>>
    /\ UNCHANGED <<pipeVars, appVars, chatVars, sheetVars>>

\* onClick of an enabled Next button
ClickNext ==
    /\ pc = "table"
    /\ ControlsShown(tableData)
    /\ currentPage # totalPages(tableData)
    /\ currentPage' = Min(totalPages(tableData), currentPage + 1)
    /\ UNCHANGED <<tableData, csvContent>>
    /\ UNCHANGED <<pipeVars, appVars, chatVars, sheetVars>>

\* onClick of Export CSV
handleExport ==
    /\ pc = "table"
    /\ csvContent' = Str(exportText(tableData))
    /\ UNCHANGED <<tableData, currentPage>>
    /\ UNCHANGED <<pipeVars, appVars, chatVars, sheetVars>>

NextTable == ClickPrevious \/ ClickNext \/ handleExport

SpecTable == InitTable /\ [][NextTable]_vars

----------------------------------------------------------------------------
(* Properties *)

\* s contains kw, letter case of s ignored
Mentions(s, kw) ==
    \E i \in 1..(Len(s) - Len(kw) + 1) :
        \A k \in 1..Len(kw) : toLowerCaseChar(s[i + k - 1]) = kw[k]

AsksAverage == Mentions(question, kwAverage) \/ Mentions(question, kwMean)
AsksCount == Mentions(question, kwCount) \/ Mentions(question, kwHowMany)
AsksSum == Mentions(question, kwSum) \/ Mentions(question, kwTotal)
AsksGroupBy == Mentions(question, kwGroupBy) \/ Mentions(question, kwBreakdown)

\* positions of the numeric-named and of the category-named columns
NumericNamed == {i \in 1..Len(processed.columns) :
                    \E kw \in numericKeywords : Mentions(processed.columns[i], kw)}
CategoryNamed == {i \in 1..Len(processed.columns) :
                    \E kw \in categoryKeywords : Mentions(processed.columns[i], kw)}
FirstOf(S) == CHOOSE i \in S : \A j \in S : i <= j
FirstNumericColumn == processed.columns[FirstOf(NumericNamed)]
ChosenCategoryColumn == IF CategoryNamed # {} THEN processed.columns[FirstOf(CategoryNamed)]
                        ELSE processed.columns[1]

\* the template a generated query is an instance of
TemplateOf(sql) ==
    CASE sql = sqlCount -> "COUNT"
      [] sql = sqlDefault -> "DEFAULT"
      [] StartsAt(sql, 1, sqlAvgHead) /\ StartsAt(sql, Len(sql) - Len(sqlAvgTail) + 1, sqlAvgTail)
           -> "AVG"
      [] StartsAt(sql, 1, sqlSumHead) /\ StartsAt(sql, Len(sql) - Len(sqlSumTail) + 1, sqlSumTail)
           -> "SUM"
      [] StartsAt(sql, 1, sqlSelect) /\ includes(sql, sqlGroupMid) -> "GROUP BY"
      [] OTHER -> "none"

Answered == pc = "answered"

----------------------------------------------------------------------------
\* C1: every assistant message that answers a question carries the result
\* processQuery returned for it; the apology without a result appears only
\* for a question whose processing threw (processQuery returns a result for
\* every question, so no reply is the apology).
C1_ReplyCarriesResult ==
    \A i \in 2..Len(messages) :
        messages[i].type = "assistant" =>
            /\ messages[i].tag = "response"
            /\ messages[i].result # Null

----------------------------------------------------------------------------
\* C2: a 'group by' / 'breakdown' question with none of the other keywords,
\* over a dataset with a numeric-named column, is answered with one result
\* row per distinct value of the chosen category column, each carrying the
\* number of data rows that have that value.
C2_GroupByOneRowPerValue ==
    (/\ Answered
     /\ AsksGroupBy /\ ~AsksAverage /\ ~AsksCount /\ ~AsksSum
     /\ NumericNamed # {})
    => LET col == ChosenCategoryColumn
           data == processed.data
           values == {ObjGet(data[r], col) : r \in 1..Len(data)}
           rowsWith(v) == Cardinality({r \in 1..Len(data) : ObjGet(data[r], col) = v})
           res == outcome.queryResult
           groupOf(i) == IF ObjHas(res[i], col) THEN ObjGet(res[i], col)
                         ELSE ObjGet(res[i], toLowerCase(col))
       IN  /\ Len(res) = Cardinality(values)
           /\ \A v \in values :
                 \E i \in 1..Len(res) :
                    /\ groupOf(i) \in {v, Str(StringOf(v))}
                    /\ ObjGet(res[i], keyCount) = Num(rowsWith(v))

----------------------------------------------------------------------------
\* C3: an AVG (a SUM) query returns the mean (the sum), rounded to 2
\* decimals, of the numeric cell values the data rows store under the first
\* numeric-named column, and the column name embedded in the query is a key
\* of the data rows.
C3_AggregateOverStoredColumn ==
    (/\ Answered
     /\ NumericNamed # {}
     /\ AsksAverage \/ (AsksSum /\ ~AsksCount))
    => LET col == FirstNumericColumn
           data == processed.data
           cells == SelectSeq([r \in 1..Len(data) |-> ObjGet(data[r], col)], IsNum)
           res == outcome.queryResult
       IN  /\ \A r \in 1..Len(data) : ObjHas(data[r], extractColumnFromQuery(outcome.sqlQuery))
           /\ Len(res) = 1
           /\ (AsksAverage /\ Len(cells) > 0) =>
                 ObjGet(res[1], keyAverage)
                    = FromHundredths(MathRoundDiv(100 * SumNums(cells), Len(cells)))
           /\ ~AsksAverage => ObjGet(res[1], keyTotal) = Num(SumNums(cells))

----------------------------------------------------------------------------
\* C4: the data quality score of every processed file is an integer between
\* 0 and 100.
C4_ScoreIsPercentage ==
    pc = "processed" =>
        /\ IsNum(processed.metadata.dataQualityScore)
        /\ processed.metadata.dataQualityScore.n \in 0..100

----------------------------------------------------------------------------
\* C5: the template of the generated query follows the precedence
\* average/mean -> AVG, count/how many -> COUNT, sum/total -> SUM,
\* group by/breakdown -> GROUP BY, otherwise the default query; AVG and SUM
\* need a numeric-named column, GROUP BY a category and a numeric-named
\* column, and fall through to the later checks without one.
C5_TemplatePrecedence ==
    Answered =>
        TemplateOf(outcome.sqlQuery) =
            IF AsksAverage /\ NumericNamed # {} THEN "AVG"
            ELSE IF AsksCount THEN "COUNT"
            ELSE IF AsksSum /\ NumericNamed # {} THEN "SUM"
            ELSE IF AsksGroupBy /\ NumericNamed # {} /\ Len(processed.columns) > 0
                 THEN "GROUP BY"
            ELSE "DEFAULT"

\* an 'average' question over a dataset without numeric-named column fell
\* through to the COUNT template
C5_Witness ==
    /\ Answered
    /\ AsksAverage /\ AsksCount /\ NumericNamed = {}
    /\ TemplateOf(outcome.sqlQuery) = "COUNT"

----------------------------------------------------------------------------
\* C6: a 'count' / 'how many' question that does not reach the AVG template
\* reports the number of rows of the dataset.
C6_CountIsRowCount ==
    (/\ Answered
     /\ AsksCount
     /\ ~AsksAverage \/ NumericNamed = {})
    => LET n == Num(processed.metadata.rowCount)
           r == outcome.result
       IN  /\ processed.metadata.rowCount = Len(processed.data)
           /\ outcome.queryResult = <<ObjSet(<<>>, keyCount, n)>>
           /\ r.type \in {"insight", "chart"}
           /\ r.type = "insight" => r.data.value = n
           /\ r.type = "chart" => r.data.data = <<[name |-> ItemName(1), value |-> n]>>

C6_Witness ==
    /\ Answered
    /\ AsksCount /\ ~AsksAverage
    /\ Len(processed.columns) = 3
    /\ Len(processed.data) = 2
    /\ outcome.result.type = "insight"
    /\ outcome.result.data.value = Num(2)

----------------------------------------------------------------------------
\* C7: at most one handleFileUpload call is unsettled, and isProcessing is
\* true exactly while one is.
C7_OneUploadAtATime ==
    /\ Cardinality(uploads) <= 1
    /\ isProcessing <=> uploads # {}

----------------------------------------------------------------------------
\* C8: at most one processQuery call started by handleSubmit is unsettled,
\* isLoading is true exactly while one is, and a step taken while isLoading
\* is true starts no query.
C8_OneQueryAtATime ==
    /\ [](/\ Cardinality(queries) <= 1
          /\ isLoading <=> queries # {})
    /\ [][isLoading => queries' \subseteq queries]_vars

C8_Witness ==
    /\ isLoading
    /\ Cardinality(queries) = 1
    /\ Len(messages) >= 4

----------------------------------------------------------------------------
\* C9: a handleFileUpload whose file fails to process ends with error set to
\* a message, isProcessing false, and processedData as it was when the
\* upload started.
C9_FailedUploadKeepsData ==
    [][\A u \in uploads :
          (u.file.kind # "ok" /\ uploads' = uploads \ {u})
          => /\ error' # Null
             /\ isProcessing' = FALSE
             /\ processedData' = u.before]_vars

----------------------------------------------------------------------------
\* C10: the result type is 'chart' for a question with chart / graph / plot /
\* visualize, otherwise 'insight' for a question with insight / trend /
\* analysis or a query result of exactly one row with at most two fields,
\* otherwise 'table'; the attached data comes from the formatter of that type.
C10_ResultTypePrecedence ==
    Answered =>
        LET res == outcome.queryResult
            expected ==
                IF \E kw \in {kwChart, kwGraph, kwPlot, kwVisualize} : Mentions(question, kw)
                THEN "chart"
                ELSE IF \/ \E kw \in {kwInsight, kwTrend, kwAnalysis} : Mentions(question, kw)
                        \/ (Len(res) = 1 /\ Len(res[1]) <= 2)
                THEN "insight"
                ELSE "table"
        IN  /\ outcome.result.type = expected
            /\ outcome.result.data.kind = expected

\* a single result row with three fields is shown as a table
C10_Witness ==
    /\ Answered
    /\ Len(outcome.queryResult) = 1
    /\ Len(outcome.queryResult[1]) = 3
    /\ outcome.result.type = "table"
    /\ outcome.result.data.kind = "table"

----------------------------------------------------------------------------
----------------------------------------------------------------------------
----------------------------------------------------------------------------
\* C13: a header cell at index i that is null, undefined or '' gives the
\* column the name 'Column_<i+1>', and every column name the data processor
\* returns is a non-empty string of at most 50 characters, each a word
\* character or '-'.
C13_ColumnNaming ==
    (pc = "processed" /\ Len(rawData) > 0) =>
        LET headerRow == rawData[headerRowIndexOf(rawData) + 1]
            columns == processed.columns
        IN  /\ \A i \in 1..Len(headerRow) :
                  \* headerRow[i - 1] in the indices of the code
                  IsBlankCell(CellAt(headerRow, i)) =>
                      \E c \in 1..Len(columns) :
                          columns[c] = <<"C","o","l","u","m","n","_">> \o NatToStr(i)
            /\ \A c \in 1..Len(columns) :
                  /\ Len(columns[c]) \in 1..MaxColumnNameLen
                  /\ \A k \in 1..Len(columns[c]) :
                        IsWordChar(columns[c][k]) \/ columns[c][k] = "-"

----------------------------------------------------------------------------
\* C14: cleanCellValue turns null, undefined and '' into null; a number
\* strictly between 25000 and 50000 into a 'YYYY-MM-DD' string and leaves
\* every other number as it is; trims a string and turns it into a number if
\* the trimmed text is non-empty and a numeral, into true / false if it is
\* 'true' / 'false' in any letter case, and into the trimmed string
\* otherwise; and leaves every other value as it is.
C14_CellCoercion ==
    (pc = "processed" /\ Len(rawData) = 2 /\ rawData[1] = CellHeader) =>
        LET cell == CellAt(rawData[2], 1)
            out == ObjGet(processed.data[1], CellHeader[1].s)
            text == trim(cell.s)
            unsigned == IF Len(text) > 0 /\ text[1] \in {"-", "+"} THEN Tail(text) ELSE text
            numeral == Len(unsigned) > 0 /\ \A k \in 1..Len(unsigned) : IsDigit(unsigned[k])
            dateString(v) ==
                /\ v.t = "string"
                /\ Len(v.s) = 10
                /\ \A k \in 1..10 : IF k \in {5, 8} THEN v.s[k] = "-" ELSE IsDigit(v.s[k])
        IN  CASE cell \in {Null, Undefined, Str(<<>>)} -> out = Null
              [] cell.t = "number" ->
                    IF cell.n > 25000 /\ cell.n < 50000 THEN dateString(out) ELSE out = cell
              [] cell.t = "string" /\ cell.s # <<>> ->
                    IF numeral THEN out.t = "number" /\ out = NumberOf(text)
                    ELSE IF toLowerCase(text) = <<"t","r","u","e">> THEN out = Bool(TRUE)
                    ELSE IF toLowerCase(text) = <<"f","a","l","s","e">> THEN out = Bool(FALSE)
                    ELSE out = Str(text)
              [] OTHER -> out = cell

\* the serial number 25001, the first of the date range, became a date string
C14_Witness ==
    /\ pc = "processed"
    /\ Len(rawData) = 2 /\ rawData[1] = CellHeader
    /\ rawData[2][1] = Num(25001)
    /\ ObjGet(processed.data[1], CellHeader[1].s) = Str(<<"1","9","6","8","-","0","6","-","1","2">>)

----------------------------------------------------------------------------
\* C15: for a workbook with at least one sheet, findBestSheet returns the
\* name of a sheet whose declared range has the most cells (rows * columns,
\* a sheet without a range counting as one cell), and of the sheets with that
\* many cells the one that comes first in the workbook.
C15_BestSheetIsFirstLargest ==
    (pc = "sheet" /\ Len(workbook.SheetNames) > 0) =>
        LET n == Len(workbook.SheetNames)
            count(k) == cellCountOf(workbook.Sheets[k])
        IN  \E k \in 1..n :
               /\ sheetName = workbook.SheetNames[k]
               /\ \A m \in 1..n : count(m) <= count(k)
               /\ \A m \in 1..(k - 1) : count(m) < count(k)

\* the second and the third sheet both have the most cells: the second wins
C15_Witness ==
    /\ pc = "sheet"
    /\ Len(workbook.SheetNames) = 3
    /\ cellCountOf(workbook.Sheets[1]) = 1
    /\ cellCountOf(workbook.Sheets[2]) = 4
    /\ cellCountOf(workbook.Sheets[3]) = 4
    /\ sheetName = SheetNameOf(2)

----------------------------------------------------------------------------
\* C16: for a table with at least one row, whatever Previous and Next clicks
\* came before, 1 <= currentPage <= totalPages, where totalPages is the
\* least number of pages of 10 rows that hold all rows; the page shows the
\* rows with indices (currentPage-1)*10 up to but excluding currentPage*10,
\* between 1 and 10 of them; and every row is on exactly one page.
C16_Pagination ==
    (pc = "table" /\ Len(tableData.rows) >= 1) =>
        LET n == Len(tableData.rows)
            pages == totalPages(tableData)
            shown == currentRows(tableData, currentPage)
            first == (currentPage - 1) * 10
            indices == {i \in 0..(n - 1) : first <= i /\ i < currentPage * 10}
        IN  /\ 1 <= currentPage /\ currentPage <= pages
            /\ pages * 10 >= n /\ (pages - 1) * 10 < n
            /\ Len(shown) = Cardinality(indices)
            /\ \A j \in 1..Len(shown) : shown[j] = tableData.rows[first + j]
            /\ 1 <= Len(shown) /\ Len(shown) <= 10
            /\ \A i \in 1..n :
                  Cardinality({p \in 1..pages :
                      \E j \in 1..Len(currentRows(tableData, p)) :
                          currentRows(tableData, p)[j] = tableData.rows[i]}) = 1

\* the third and last page of 21 rows, reached by two clicks on Next, shows
\* the one row left
C16_Witness ==
    /\ pc = "table"
    /\ Len(tableData.rows) = 21
    /\ currentPage = 3
    /\ Len(currentRows(tableData, currentPage)) = 1

\* C17: the text of an export read back by the quoting rules of CSV (a field
\* in double quotes runs to the closing quote, a doubled quote inside it is
\* one quote; other fields run to the next comma or line break) has one
\* record for the header and one for every row of the table, whatever page
\* is shown, and each row's record has one field per column, equal to
\* String(value) of the cell and to '' for null and undefined.
C17_ExportRoundTrips ==
    (pc = "table" /\ csvContent # Null) =>
        LET RECURSIVE records(_, _, _, _, _)
            records(text, i, quoted, field, record) ==
                IF i > Len(text) THEN <<Append(record, field)>>
                ELSE IF quoted
                THEN IF text[i] = "\"" /\ i < Len(text) /\ text[i + 1] = "\""
                     THEN records(text, i + 2, TRUE, Append(field, "\""), record)
                     ELSE IF text[i] = "\""
                     THEN records(text, i + 1, FALSE, field, record)
                     ELSE records(text, i + 1, TRUE, Append(field, text[i]), record)
                ELSE IF text[i] = "\"" /\ field = <<>>
                THEN records(text, i + 1, TRUE, field, record)
                ELSE IF text[i] = ","
                THEN records(text, i + 1, FALSE, <<>>, Append(record, field))
                ELSE IF text[i] = "\n"
                THEN <<Append(record, field)>> \o records(text, i + 1, FALSE, <<>>, <<>>)
                ELSE records(text, i + 1, FALSE, Append(field, text[i]), record)
            text(v) == IF v = Null \/ v = Undefined THEN <<>> ELSE StringOf(v)
            expected == <<tableData.columns>>
                        \o [r \in 1..Len(tableData.rows) |->
                              [c \in 1..Len(tableData.columns) |->
                                  text(ObjGet(tableData.rows[r], tableData.columns[c]))]]
        IN  records(csvContent.s, 1, FALSE, <<>>, <<>>) = expected

----------------------------------------------------------------------------
\* C18: the confidence_score of every result of processQuery, in hundredths,
\* is 10, 80, 90 or 95 (so between 0 and 1): 10 for an empty query result,
\* and otherwise 80, plus 10 when the question contains 'show' or 'find',
\* plus 10 when the question has more than 5 words separated by a space,
\* and never more than 95.
C18_ConfidenceScore ==
    (pc = "answered") =>
        LET score == outcome.result.confidence_score
            has(word) == \E i \in 1..(Len(question) - Len(word) + 1) :
                            SubSeq(question, i, i + Len(word) - 1) = word
            specific == has(<<"s","h","o","w">>) \/ has(<<"f","i","n","d">>)
            words == Len(SelectSeq(question, LAMBDA ch : ch = " ")) + 1
            sum == 80 + (IF specific THEN 10 ELSE 0) + (IF words > 5 THEN 10 ELSE 0)
        IN  /\ score \in {10, 80, 90, 95}
            /\ 0 <= score /\ score <= 100
            /\ (Len(outcome.queryResult) = 0) => score = 10
            /\ (Len(outcome.queryResult) # 0) => score = (IF sum > 95 THEN 95 ELSE sum)

\* 'show' followed by six more words about a sheet with rows: 0.8 + 0.1 + 0.1
\* capped at 0.95
C18_Witness ==
    /\ pc = "answered"
    /\ question = JoinWords(<<kwShow>> \o [i \in 1..6 |-> <<"m","e">>])
    /\ Len(outcome.queryResult) > 0
    /\ outcome.result.confidence_score = 95

----------------------------------------------------------------------------
\* C19: a submit that is accepted (the input is not blank and isLoading is
\* false) appends exactly one user message, with the trimmed input, and
\* clears the input; the chat then eventually has exactly one more message,
\* from the assistant, with isLoading false again, and isLoading never
\* becomes false in another way, whether the reply is a result or the apology.
C19_SubmitIsAnswered ==
    /\ [][(ChatMounted /\ trim(input) # <<>> /\ ~isLoading /\ isLoading')
          => /\ Len(messages') = Len(messages) + 1
             /\ SubSeq(messages', 1, Len(messages)) = messages
             /\ messages'[Len(messages')].type = "user"
             /\ messages'[Len(messages')].content = trim(input)
             /\ input' = <<>>]_vars
    /\ \A n \in 1..MaxMessages :
          (isLoading /\ Len(messages) = n /\ messages[n].type = "user")
          ~> (/\ ~isLoading
              /\ Len(messages) = n + 1
              /\ messages[n].type = "user"
              /\ messages[n + 1].type = "assistant")
    /\ [][(isLoading /\ ~isLoading')
          => /\ Len(messages') = Len(messages) + 1
             /\ SubSeq(messages', 1, Len(messages)) = messages
             /\ messages'[Len(messages')].type = "assistant"]_vars

\* the question ' count' has been asked and answered
C19_Witness ==
    /\ ~isLoading
    /\ input = <<>>
    /\ Len(messages) = 3
    /\ messages[2].type = "user"
    /\ messages[2].content = kwCount
    /\ messages[3].type = "assistant"

----------------------------------------------------------------------------
\* C20: the start of an upload sets isProcessing and clears error; every
\* upload that has started eventually ends; and its end leaves isProcessing
\* false and exactly one of the two: processedData is the data, columns and
\* metadata of its file, or error is a message.
C20_UploadEndsOneWay ==
    /\ [][nextUpload' # nextUpload => (isProcessing' = TRUE /\ error' = Null)]_vars
    /\ \A id \in 0..(MaxUploads - 1) :
          (\E u \in uploads : u.id = id) ~> ~(\E u \in uploads : u.id = id)
    /\ [][\A u \in uploads :
            (uploads' = uploads \ {u})
            => /\ isProcessing' = FALSE
               /\ LET replaced == /\ u.file.kind = "ok"
                                  /\ \E read \in FileResults :
                                        /\ read.sheet = u.file.sheet
                                        /\ processedData' = read.result
                      failed == error' # Null
                  IN  replaced # failed]_vars

----------------------------------------------------------------------------
\* C21: processQuery never rejects; when a step of it raised an exception,
\* what it returns is an insight titled 'Analysis Error' with
\* confidence_score 0.1 (10 hundredths) and without an sql_query.
C21_ErrorsBecomeResults ==
    (pc = "answered") =>
        LET data == processed.data
            lower == toLowerCase(question)
            nullRow == \E r \in 1..Len(data) : data[r] = <<Null>>
            average == includes(lower, kwAverage) \/ includes(lower, kwMean)
            counts == includes(lower, kwCount) \/ includes(lower, kwHowMany)
            sum == includes(lower, kwSum) \/ includes(lower, kwTotal)
            \* an average or a sum reads a column of every row, and one is null
            raised == nullRow /\ (average \/ (sum /\ ~counts))
        IN  /\ outcome.result # Rejected.result
            /\ outcome.result.type \in {"chart", "table", "insight"}
            /\ raised => outcome.caught
            /\ outcome.caught
               => /\ outcome.result.type = "insight"
                  /\ outcome.result.data.title = "Analysis Error"
                  /\ outcome.result.confidence_score = 10
                  /\ outcome.result.sql_query = Undefined

\* the total of a column was asked over rows of which the second is null
C21_Witness ==
    /\ pc = "answered"
    /\ Len(processed.data) = 2
    /\ processed.data[1] # <<Null>>
    /\ processed.data[2] = <<Null>>
    /\ question = kwTotal
    /\ outcome.caught
    /\ outcome.result.data.title = "Analysis Error"

----------------------------------------------------------------------------
\* C22: a submit made while the input is empty or only whitespace, or while
\* isLoading is true, leaves messages, input and isLoading as they are and
\* starts no query; and no step at all starts a query in such a state.
C22_RefusedSubmitChangesNothing ==
    /\ [][(handleSubmit /\ (trim(input) = <<>> \/ isLoading))
          => /\ messages' = messages
             /\ input' = input
             /\ isLoading' = isLoading
             /\ queries' = queries]_vars
    /\ [][(trim(input) = <<>> \/ isLoading) => queries' \subseteq queries]_vars

\* two blanks are in the input after a first question was answered: what a
\* submit finds and leaves
C22_Witness ==
    /\ ChatMounted
    /\ ~isLoading
    /\ input = <<" ", " ">>
    /\ Len(messages) = 3
    /\ queries = {}

----------------------------------------------------------------------------
----------------------------------------------------------------------------
\* C24: while ChatInterface is mounted its message list is the assistant's
\* greeting followed by user and assistant messages in strict alternation;
\* its last message is a user message exactly while isLoading is true; and
\* every step of a mounted chat keeps the messages there are, in their
\* places and unmodified, adding at the end only.
C24_AlternatingAppendOnly ==
    /\ [](ChatMounted =>
            /\ Len(messages) >= 1
            /\ messages[1] = Greeting
            /\ \A i \in 2..Len(messages) :
                  messages[i].type = (IF i % 2 = 0 THEN "user" ELSE "assistant")
            /\ isLoading <=> (messages[Len(messages)].type = "user"))
    /\ [][(ChatMounted /\ ChatMounted')
          => /\ Len(messages') >= Len(messages)
             /\ SubSeq(messages', 1, Len(messages)) = messages]_vars

\* two questions asked and answered
C24_Witness ==
    /\ ChatMounted
    /\ ~isLoading
    /\ Len(messages) = 5
    /\ messages[4].type = "user"
    /\ messages[5].type = "assistant"

----------------------------------------------------------------------------
\* C25: once handleNewFile has run, a handleFileUpload call that was started
\* before it sets neither processedData nor error when it ends, and
\* processedData leaves null only by the end of a call that was started
\* after it.
C25_ResetOutlivesOldUploads ==
    /\ [][\A u \in uploads :
            (u.reset /\ uploads' = uploads \ {u})
            => (processedData' = processedData /\ error' = error)]_vars
    /\ [][(processedData = Null /\ processedData' # Null)
          => \E u \in uploads : ~u.reset /\ uploads' = uploads \ {u}]_vars

----------------------------------------------------------------------------
\* C26: every data row the data processor returns has exactly the returned
\* column names as its keys, the returned column names are pairwise
\* distinct, and metadata.rowCount and metadata.columnCount are the numbers
\* of returned rows and of returned columns.
C26_RowsMatchColumns ==
    pc = "processed" =>
        LET data == processed.data
            columns == processed.columns
        IN  /\ \A r \in 1..Len(data) :
                  {data[r][i].k : i \in 1..Len(data[r])}
                      = {columns[c] : c \in 1..Len(columns)}
            /\ \A c, d \in 1..Len(columns) : columns[c] = columns[d] => c = d
            /\ processed.metadata.rowCount = Len(data)
            /\ processed.metadata.columnCount = Len(columns)

----------------------------------------------------------------------------
\* C27: cleanCellValue is idempotent: cleaning a cleaned cell value again
\* gives the same value, for every cell value.
C27_CleanCellIdempotent ==
    (pc = "processed" /\ Len(rawData) = 2 /\ rawData[1] = CellHeader) =>
        LET cleaned == ObjGet(processed.data[1], CellHeader[1].s)
        IN  \A east \in BOOLEAN : cleanCellValue(cleaned, east) = cleaned

----------------------------------------------------------------------------
\* C28: when generateSQLQuery produces an AVG query for a dataset with at
\* least one row and executeQuery answers it, the selected column has at
\* least one numeric value, and the average is a number (never the NaN of a
\* division of 0 by 0).
C28_AverageIsDefined ==
    (/\ pc = "answered"
     /\ ~outcome.caught
     /\ includes(outcome.sqlQuery, tokAvg)
     /\ Len(processed.data) >= 1)
    => /\ Len(numericValuesOf(processed.data, extractColumnFromQuery(outcome.sqlQuery))) >= 1
       /\ ObjGet(outcome.queryResult[1], keyAverage) # NaN

----------------------------------------------------------------------------
\* C29: a table result of processQuery has at most 100 rows and a chart
\* result has at most 20 data points, however many rows the dataset has.
C29_ResultsAreLimited ==
    pc = "answered" =>
        /\ outcome.result.type = "table" => Len(outcome.result.data.rows) <= DefaultLimit
        /\ outcome.result.type = "chart" => Len(outcome.result.data.data) <= ChartLimit

----------------------------------------------------------------------------
\* C30: the ids of the messages of the chat are pairwise distinct, for every
\* sequence of submissions and every reading of the clock.
C30_MessageIdsDistinct ==
    ChatMounted =>
        \A i, j \in 1..Len(messages) : messages[i].id = messages[j].id => i = j

====
